---- MODULE Spec2Model ----
(***************************************************************************)
(* pele::SimplePairwiseInteractionList (source/simple_pairwise_ilist.h).   *)
(*                                                                         *)
(* One evaluator object (_interaction, _ilist) and one caller that owns a  *)
(* coordinate buffer x and a gradient buffer grad and calls get_energy and *)
(* get_energy_gradient in any order.  Arrays are 0-based functions, as in  *)
(* the code.  Doubles are modelled by integers (exact arithmetic).  The    *)
(* zeroing loop and the validation loop are one step each; the pair loop   *)
(* is one step per iteration.                                              *)
(***************************************************************************)
EXTENDS Integers, Sequences, FiniteSets, TLC

\* Bounds of the model.
MaxAtoms == 2
MaxList == 4

\* x.size()/3: three coordinates per particle.
Dim == 3

VARIABLES
    ndebug,   \* TRUE: built with NDEBUG (assert and the #ifndef block compiled out)
    law,      \* the pairwise_interaction the evaluator owns
    ilist,    \* _ilist, copied in by the constructor
    x,        \* the caller's coordinate buffer
    grad,     \* the caller's gradient buffer
    pc,       \* "idle", "ge_loop", "geg_zero", "geg_check", "geg_loop", and the ends
              \* "aborted" (a failed assert), "ge_ub", "geg_ub" (an access outside
              \* a buffer: anything may follow, the model follows it no further)
    i,        \* the pair loop's index
    e,        \* the energy accumulator
    retE,     \* <<v>>: get_energy last returned v; <<>>: no result held
    retEG,    \* <<v>>: get_energy_gradient last returned v and grad holds its output
    gradIn,   \* <<g>>: grad held g when that call (or the one in progress) was entered
    rd,       \* positions of _ilist read so far by the pair loop of the call in progress
    acc       \* positions of x / grad read or written so far by the call in progress

vars == <<ndebug, law, ilist, x, grad, pc, i, e, retE, retEG, gradIn, rd, acc>>

Size(a) == Cardinality(DOMAIN a)

----------------------------------------------------------------------------
(* The interaction laws (template parameter pairwise_interaction): three   *)
(* instances of the interface the two functions call.  "harm" and "skew"   *)
(* return g = 2; "quart" returns g = -(dE/dr)/r; the energy that "skew"    *)
(* returns from energy_gradient is not the one it returns from energy.     *)

Laws == {"harm", "quart", "skew"}

\* _interaction->energy(r2)
energy(lw, r2) ==
    CASE lw = "harm" -> r2
      [] lw = "quart" -> r2 * r2
      [] lw = "skew" -> r2

\* _interaction->energy_gradient(r2, &gij): the returned energy and gij
energy_gradient(lw, r2) ==
    CASE lw = "harm" -> [e |-> r2, g |-> 2]
      [] lw = "quart" -> [e |-> r2 * r2, g |-> 0 - 4 * r2]
      [] lw = "skew" -> [e |-> r2 + 1, g |-> 2]

----------------------------------------------------------------------------
(* The inputs.                                                             *)

\* Particle positions the caller's buffers are built from.
Positions == {<<0, 0, 0>>, <<1, 0, 0>>, <<1, 2, -1>>}

\* The flat buffers of n particles: x[3p+k] is coordinate k of particle p.
CoordBuffers(n) ==
    {[j \in 0..(Dim * n - 1) |-> ps[j \div Dim][(j % Dim) + 1]] :
        ps \in [0..(n - 1) -> Positions]}

\* What a gradient buffer of m entries may hold before a call.
GradPatterns(m) == {[j \in 0..(m - 1) |-> 7], [j \in 0..(m - 1) |-> j - 2]}

\* The index sequences of at most MaxList entries over the indices idx.
ILists(idx) == UNION {[0..(len - 1) -> idx] : len \in 0..MaxList}

\* const size_t natoms = x.size()/3;
Natoms(xx) == Size(xx) \div Dim

\* An index that names a particle of the buffer.
InRange(a, xx) == a >= 0 /\ a < Natoms(xx)

\* What a read of _ilist[pos] yields: the entry, or, past the end of the
\* vector, any value at all (here: every in-range index and one
\* out-of-range index on each side).
ListRead(l, xx, pos) ==
    IF pos < Size(l) THEN {l[pos]} ELSE (0 - 1)..Natoms(xx)

\* The buffer positions i1+0, i1+1, i1+2 a pair step touches for one particle.
\* i1 = 3*_ilist[i] is a size_t: for a negative entry it wraps, and x[i1+k]
\* is the address 3*entry+k entries from the buffer's start, here the
\* position 3*entry+k, outside the buffer either way.
Slot(i1) == i1..(i1 + Dim - 1)

\* Whether those positions lie inside buffer b.
InBuf(b, i1) == Slot(i1) \subseteq DOMAIN b

----------------------------------------------------------------------------
(* The pair loop's body.                                                   *)

\* for(k) dr[k] = x[i1+k] - x[i2+k];
PairDr(xx, i1, i2) == [k \in 0..(Dim - 1) |-> xx[i1 + k] - xx[i2 + k]]

\* Faulty variant: the last term is not squared.
R2NoSquare(dr) == dr[0] * dr[0] + dr[1] * dr[1] + dr[2]
\* double r2 = dr[0]*dr[0] + dr[1]*dr[1] + dr[2]*dr[2];
R2(dr) == dr[0] * dr[0] + dr[1] * dr[1] + dr[2] * dr[2]

\* Faulty variant: += in place of -=.
ScatterFirstAdd(g, i1, gij, dr) ==
    [j \in DOMAIN g |-> IF j \in Slot(i1) THEN g[j] + gij * dr[j - i1] ELSE g[j]]
\* for(k) grad[i1+k] -= gij * dr[k];
ScatterFirst(g, i1, gij, dr) ==
    [j \in DOMAIN g |-> IF j \in Slot(i1) THEN g[j] - gij * dr[j - i1] ELSE g[j]]

\* Faulty variants: = in place of +=; the term added twice.
ScatterSecondAssign(g, i2, gij, dr) ==
    [j \in DOMAIN g |-> IF j \in Slot(i2) THEN gij * dr[j - i2] ELSE g[j]]
ScatterSecondTwice(g, i2, gij, dr) ==
    [j \in DOMAIN g |-> IF j \in Slot(i2) THEN g[j] + 2 * gij * dr[j - i2] ELSE g[j]]
\* for(k) grad[i2+k] += gij * dr[k];
ScatterSecond(g, i2, gij, dr) ==
    [j \in DOMAIN g |-> IF j \in Slot(i2) THEN g[j] + gij * dr[j - i2] ELSE g[j]]

\* Faulty variant: i2 taken from the pair's first entry.
EnergyTermSameSlot(xx, lw, a, b) == energy(lw, R2(PairDr(xx, Dim * a, Dim * a)))
\* get_energy's loop body for the pair (a, b): the term added to e
EnergyTerm(xx, lw, a, b) == energy(lw, R2(PairDr(xx, Dim * a, Dim * b)))

\* Faulty variant: = in place of +=.
EnergyAccumAssign(acc0, term) == term
\* e += _interaction->energy(r2);
EnergyAccum(acc0, term) == acc0 + term

\* get_energy_gradient's loop body for the pair (a, b) on the state
\* st = [e, grad]: the state after it
GradientPair(xx, lw, a, b, st) ==
    LET i1 == Dim * a
        i2 == Dim * b
        dr == PairDr(xx, i1, i2)
        eg == energy_gradient(lw, R2(dr))
    IN  [e |-> st.e + eg.e,
         grad |-> ScatterSecond(ScatterFirst(st.grad, i1, eg.g, dr), i2, eg.g, dr)]

\* Faulty variant: the zeroing loop left out.
ZeroedNot(g, n) == g
\* for(i<n) grad[i] = 0.;
Zeroed(g, n) == [j \in DOMAIN g |-> IF j < n THEN 0 ELSE g[j]]

\* Variant that stops before an incomplete last pair.
LoopCondPairs(idx, nlist) == idx + 1 < nlist
\* the loop condition i<nlist of both pair loops
LoopCond(idx, nlist) == idx < nlist

\* for(i<nlist) assert(_ilist[i] < (long int)natoms);
IndicesPass(l, xx) == \A j \in DOMAIN l : l[j] < Natoms(xx)

----------------------------------------------------------------------------
(* The two loops run to completion on a list of even length.               *)

RECURSIVE RunGradient(_, _, _, _, _)
RunGradient(l, xx, lw, j, st) ==
    IF ~LoopCond(j, Size(l)) THEN st
    ELSE RunGradient(l, xx, lw, j + 2, GradientPair(xx, lw, l[j], l[j + 1], st))

\* get_energy_gradient(x, grad) on the list l: [e, grad]
GradientResult(l, xx, lw) ==
    RunGradient(l, xx, lw, 0, [e |-> 0, grad |-> [j \in DOMAIN xx |-> 0]])

RECURSIVE RunEnergy(_, _, _, _, _)
RunEnergy(l, xx, lw, j, tot) ==
    IF ~LoopCond(j, Size(l)) THEN tot
    ELSE RunEnergy(l, xx, lw, j + 2,
                   EnergyAccum(tot, EnergyTerm(xx, lw, l[j], l[j + 1])))

\* get_energy(x) on the list l
EnergyResult(l, xx, lw) == RunEnergy(l, xx, lw, 0, 0)

----------------------------------------------------------------------------
(* Initial states: the evaluator after construction, the caller's buffers. *)

InitLocals ==
    /\ pc = "idle"
    /\ i = 0
    /\ e = 0
    /\ retE = <<>>
    /\ retEG = <<>>
    /\ gradIn = <<>>
    /\ rd = {}
    /\ acc = {}

\* The lists of even length among ls.
EvenLists(ls) == {l \in ls : Size(l) % 2 = 0}

\* Valid input: a list of even length with indices in range, and buffers of
\* one length.
Init ==
    /\ ndebug \in BOOLEAN
    /\ law \in Laws
    /\ \E n \in 1..MaxAtoms :
        /\ x \in CoordBuffers(n)
        /\ ilist \in EvenLists(ILists(0..(n - 1)))
        /\ grad = [j \in 0..(Dim * n - 1) |-> 7]
    /\ InitLocals

\* A list of any length, odd ones too, with indices in range; particle p
\* sits at (p, 2p, -p).
InitAnyLength ==
    /\ ndebug \in BOOLEAN
    /\ law = "harm"
    /\ \E n \in 1..MaxAtoms :
        /\ x = [j \in 0..(Dim * n - 1) |->
                    (j \div Dim) * (IF j % Dim = 0 THEN 1 ELSE IF j % Dim = 1 THEN 2 ELSE 0 - 1)]
        /\ ilist \in ILists(0..(n - 1))
        /\ grad = [j \in 0..(Dim * n - 1) |-> 7]
    /\ InitLocals

\* Any index from -1 to natoms, any length; the gradient buffer may be
\* shorter or longer than the coordinate buffer.
InitMalformed ==
    /\ ndebug \in BOOLEAN
    /\ law = "harm"
    /\ \E n \in 1..MaxAtoms :
        /\ x \in CoordBuffers(n)
        /\ ilist \in ILists((0 - 1)..n)
        /\ grad \in {[j \in 0..(m - 1) |-> 7] : m \in {Dim * n - 1, Dim * n, Dim * n + 1}}
    /\ InitLocals

----------------------------------------------------------------------------
(* get_energy                                                              *)

\* Faulty variant: get_energy zeroing the gradient buffer.
Enter_get_energy_zeroing ==
    /\ pc = "idle"
    /\ pc' = "ge_loop"
    /\ i' = 0
    /\ e' = 0
    /\ retE' = <<>>
    /\ rd' = {}
    /\ acc' = {}
    /\ grad' = Zeroed(grad, Size(x))
    /\ UNCHANGED <<ndebug, law, ilist, x, retEG, gradIn>>
\* lines 100-102: the locals
Enter_get_energy ==
    /\ pc = "idle"
    /\ pc' = "ge_loop"
    /\ i' = 0
    /\ e' = 0
    /\ retE' = <<>>
    /\ rd' = {}
    /\ acc' = {}
    /\ UNCHANGED <<ndebug, law, ilist, x, grad, retEG, gradIn>>

get_energy_pair ==
    /\ pc = "ge_loop"
    /\ LoopCond(i, Size(ilist))
    /\ \E a \in ListRead(ilist, x, i), b \in ListRead(ilist, x, i + 1) :
        /\ rd' = rd \cup {i, i + 1}
        /\ acc' = acc \cup Slot(Dim * a) \cup Slot(Dim * b)
        /\ IF InBuf(x, Dim * a) /\ InBuf(x, Dim * b)
           THEN /\ e' = EnergyAccum(e, EnergyTerm(x, law, a, b))
                /\ i' = i + 2
                /\ pc' = pc
           ELSE /\ pc' = "ge_ub"
                /\ UNCHANGED <<e, i>>
    /\ UNCHANGED <<ndebug, law, ilist, x, grad, retE, retEG, gradIn>>

get_energy_return ==
    /\ pc = "ge_loop"
    /\ ~LoopCond(i, Size(ilist))
    /\ retE' = <<e>>
    /\ pc' = "idle"
    /\ i' = 0
    /\ e' = 0
    /\ rd' = {}
    /\ acc' = {}
    /\ UNCHANGED <<ndebug, law, ilist, x, grad, retEG, gradIn>>

----------------------------------------------------------------------------
(* get_energy_gradient                                                     *)

\* lines 62-67: the locals and assert(x.size() == grad.size())
Enter_get_energy_gradient ==
    /\ pc = "idle"
    /\ pc' = IF ~ndebug /\ Size(x) # Size(grad) THEN "aborted" ELSE "geg_zero"
    /\ i' = 0
    /\ e' = 0
    /\ retEG' = <<>>
    /\ gradIn' = <<grad>>
    /\ rd' = {}
    /\ acc' = {}
    /\ UNCHANGED <<ndebug, law, ilist, x, grad, retE>>

\* lines 69-70; the validation loop exists only without NDEBUG
geg_zero ==
    /\ pc = "geg_zero"
    /\ acc' = acc \cup (0..(Size(x) - 1))
    /\ grad' = Zeroed(grad, Size(x))
    /\ pc' = IF Size(x) > Size(grad) THEN "geg_ub"
             ELSE IF ndebug THEN "geg_loop" ELSE "geg_check"
    /\ UNCHANGED <<ndebug, law, ilist, x, i, e, retE, retEG, gradIn, rd>>

\* lines 72-75
geg_validate ==
    /\ pc = "geg_check"
    /\ pc' = IF IndicesPass(ilist, x) THEN "geg_loop" ELSE "aborted"
    /\ UNCHANGED <<ndebug, law, ilist, x, grad, i, e, retE, retEG, gradIn, rd, acc>>

\* lines 77-91, one iteration
geg_pair ==
    /\ pc = "geg_loop"
    /\ LoopCond(i, Size(ilist))
    /\ \E a \in ListRead(ilist, x, i), b \in ListRead(ilist, x, i + 1) :
        /\ rd' = rd \cup {i, i + 1}
        /\ acc' = acc \cup Slot(Dim * a) \cup Slot(Dim * b)
        /\ IF /\ InBuf(x, Dim * a) /\ InBuf(x, Dim * b)
              /\ InBuf(grad, Dim * a) /\ InBuf(grad, Dim * b)
           THEN LET st == GradientPair(x, law, a, b, [e |-> e, grad |-> grad])
                IN  /\ e' = st.e
                    /\ grad' = st.grad
                    /\ i' = i + 2
                    /\ pc' = pc
           ELSE /\ pc' = "geg_ub"
                /\ UNCHANGED <<e, i, grad>>
    /\ UNCHANGED <<ndebug, law, ilist, x, retE, retEG, gradIn>>

geg_return ==
    /\ pc = "geg_loop"
    /\ ~LoopCond(i, Size(ilist))
    /\ retEG' = <<e>>
    /\ pc' = "idle"
    /\ i' = 0
    /\ e' = 0
    /\ rd' = {}
    /\ acc' = {}
    /\ UNCHANGED <<ndebug, law, ilist, x, grad, retE, gradIn>>

----------------------------------------------------------------------------
(* The caller, between calls: it reuses its gradient buffer, so the buffer *)
(* no longer holds the last call's output.                                 *)

CallerDirty ==
    /\ pc = "idle"
    /\ grad' \in GradPatterns(Size(grad))
    /\ grad' # grad
    /\ retEG' = <<>>
    /\ gradIn' = <<>>
    /\ UNCHANGED <<ndebug, law, ilist, x, pc, i, e, retE, rd, acc>>

Next ==
    \/ Enter_get_energy
    \/ get_energy_pair
    \/ get_energy_return
    \/ Enter_get_energy_gradient
    \/ geg_zero
    \/ geg_validate
    \/ geg_pair
    \/ geg_return
    \/ CallerDirty

Spec == Init /\ [][Next]_vars

SpecAnyLength == InitAnyLength /\ [][Next]_vars

SpecMalformed == InitMalformed /\ [][Next]_vars

----------------------------------------------------------------------------
(* Properties.                                                             *)

\* The positions of the first entries of the list's pairs.
PairStarts(l) == {j \in DOMAIN l : j % 2 = 0 /\ j + 1 \in DOMAIN l}

\* An even-length list with indices in range, buffers of one length.
ValidInput ==
    /\ Size(ilist) % 2 = 0
    /\ \A j \in DOMAIN ilist : InRange(ilist[j], x)
    /\ Size(grad) = Size(x)

\* Both calls have returned and grad still holds get_energy_gradient's output.
BothReturned == pc = "idle" /\ retE # <<>> /\ retEG # <<>>

ZeroBuffer(xx) == [j \in DOMAIN xx |-> 0]

\* Separation of the particles a and b on axis k, from the coordinates.
Sep(xx, a, b, k) == xx[Dim * a + k] - xx[Dim * b + k]

\* Squared plain Cartesian separation of the particles a and b.
SqDist(xx, a, b) ==
    Sep(xx, a, b, 0) * Sep(xx, a, b, 0) + Sep(xx, a, b, 1) * Sep(xx, a, b, 1)
        + Sep(xx, a, b, 2) * Sep(xx, a, b, 2)

(* C1 *)
C1_Case ==
    /\ pc = "idle"
    /\ retEG # <<>>
    /\ law = "harm"
    /\ ilist = [j \in 0..1 |-> j]
    /\ x = [j \in 0..5 |-> IF j = 3 THEN 1 ELSE 0]

\* C1 as stated: for the pair (0, 1), the law energy(r2) = r2 with g = 2, and
\* particles at (0,0,0) and (1,0,0), get_energy_gradient returns 1 and
\* leaves the gradient (-2,0,0) on particle 0 and (2,0,0) on particle 1.
C1_Original ==
    C1_Case =>
        /\ retEG = <<1>>
        /\ grad = [j \in 0..5 |-> IF j = 0 THEN 0 - 2 ELSE IF j = 3 THEN 2 ELSE 0]

\* C1 amended: in that case get_energy_gradient returns 1 and leaves the
\* gradient (2,0,0) on particle 0 and (-2,0,0) on particle 1.
C1_Amended ==
    C1_Case =>
        /\ retEG = <<1>>
        /\ grad = [j \in 0..5 |-> IF j = 0 THEN 2 ELSE IF j = 3 THEN 0 - 2 ELSE 0]

C1_Witness == C1_Case /\ gradIn # <<>>

(* C2 *)
\* The list with the pair at positions j, j+1 written the other way round.
SwapPair(l, j) ==
    [p \in DOMAIN l |-> IF p = j THEN l[j + 1] ELSE IF p = j + 1 THEN l[j] ELSE l[p]]

\* What the pair (a, b) alone adds to a gradient buffer.
Contribution(xx, lw, a, b) ==
    GradientPair(xx, lw, a, b, [e |-> 0, grad |-> ZeroBuffer(xx)]).grad

\* C2 as stated: replacing a pair (a, b) of the list by (b, a) leaves the
\* energy of get_energy and of get_energy_gradient unchanged and negates the
\* pair's gradient contribution on particle a and on particle b.
C2_Original ==
    (BothReturned /\ ValidInput) =>
        \A j \in PairStarts(ilist) :
            LET a == ilist[j]
                b == ilist[j + 1]
                l2 == SwapPair(ilist, j)
            IN  /\ <<EnergyResult(l2, x, law)>> = retE
                /\ <<GradientResult(l2, x, law).e>> = retEG
                /\ \A p \in Slot(Dim * a) \cup Slot(Dim * b) :
                     Contribution(x, law, b, a)[p] = 0 - Contribution(x, law, a, b)[p]

\* C2 amended: replacing a pair (a, b) of the list by (b, a) leaves the
\* energy of get_energy and of get_energy_gradient unchanged and leaves the
\* pair's gradient contribution, hence the whole gradient, unchanged.
C2_Amended ==
    (BothReturned /\ ValidInput) =>
        \A j \in PairStarts(ilist) :
            LET a == ilist[j]
                b == ilist[j + 1]
                l2 == SwapPair(ilist, j)
            IN  /\ <<EnergyResult(l2, x, law)>> = retE
                /\ <<GradientResult(l2, x, law).e>> = retEG
                /\ Contribution(x, law, b, a) = Contribution(x, law, a, b)
                /\ GradientResult(l2, x, law).grad = grad

C2_Witness ==
    /\ BothReturned
    /\ ValidInput
    /\ Size(ilist) = 4
    /\ \E j \in PairStarts(ilist) :
         /\ ilist[j] # ilist[j + 1]
         /\ Contribution(x, law, ilist[j], ilist[j + 1]) # ZeroBuffer(x)

(* C3 *)
\* The squared separations two of the model's positions can have.
PositionR2 ==
    {(p[1] - q[1]) * (p[1] - q[1]) + (p[2] - q[2]) * (p[2] - q[2])
        + (p[3] - q[3]) * (p[3] - q[3]) : p \in Positions, q \in Positions}

\* energy(r2) is the energy component of energy_gradient(r2), for every r2
\* up to the largest the model's positions produce.
LawConsistent(lw) ==
    \A r2 \in 0..(CHOOSE m \in PositionR2 : \A r \in PositionR2 : r <= m) :
        energy(lw, r2) = energy_gradient(lw, r2).e

\* C3: on valid input, and with a law whose energy(r2) is the energy
\* component of its energy_gradient(r2), get_energy(x) returns the value
\* get_energy_gradient(x, grad) returns.
C3_SameEnergy ==
    (BothReturned /\ ValidInput /\ LawConsistent(law)) => retE = retEG

C3_Witness ==
    /\ BothReturned
    /\ ValidInput
    /\ LawConsistent(law)
    /\ law = "quart"
    /\ Size(ilist) = 4
    /\ retE[1] > 1

(* C4 *)
\* C4: get_energy_gradient's result depends only on the coordinates and the
\* list, not on what the gradient buffer held when the call was entered:
\* every entry is zero before the first pair is processed, and the returned
\* energy and gradient are those of the pair loop run on a zero buffer.
C4_Overwritten ==
    /\ (pc \in {"geg_check", "geg_loop"} /\ i = 0) => grad = ZeroBuffer(x)
    /\ (pc = "idle" /\ retEG # <<>> /\ ValidInput) =>
         /\ retEG = <<GradientResult(ilist, x, law).e>>
         /\ grad = GradientResult(ilist, x, law).grad

\* A repeated call: the buffer held the previous call's non-zero output when
\* the call was entered, and holds the same output again.
C4_Witness ==
    /\ pc = "idle"
    /\ retEG # <<>>
    /\ ValidInput
    /\ gradIn = <<grad>>
    /\ grad # ZeroBuffer(x)

(* C5 *)
\* What the pair at positions j, j+1 adds to the gradient of particle p on
\* axis k: -g*dr[k] when p is the first particle, +g*dr[k] when the second.
PairTerm(l, xx, lw, j, p, k) ==
    LET a == l[j]
        b == l[j + 1]
        g == energy_gradient(lw, SqDist(xx, a, b)).g
    IN  (IF a = p THEN 0 - g * Sep(xx, a, b, k) ELSE 0)
            + (IF b = p THEN g * Sep(xx, a, b, k) ELSE 0)

RECURSIVE SumPairTerms(_, _, _, _, _, _)
SumPairTerms(l, xx, lw, j, p, k) ==
    IF j + 1 >= Size(l) THEN 0
    ELSE PairTerm(l, xx, lw, j, p, k) + SumPairTerms(l, xx, lw, j + 2, p, k)

\* C5: after get_energy_gradient on valid input the gradient of particle p
\* on axis k is the sum over the pairs of -g*dr[k] for pairs whose first
\* particle is p and +g*dr[k] for pairs whose second particle is p; it is
\* zero for a particle in no pair.
C5_Superposition ==
    (pc = "idle" /\ retEG # <<>> /\ ValidInput) =>
        \A p \in 0..(Natoms(x) - 1), k \in 0..(Dim - 1) :
            grad[Dim * p + k] = SumPairTerms(ilist, x, law, 0, p, k)

\* Particle 0 is in two pairs, each with a non-zero contribution.
C5_Witness ==
    /\ pc = "idle"
    /\ retEG # <<>>
    /\ ValidInput
    /\ Size(ilist) = 4
    /\ \A j \in PairStarts(ilist) :
         \E k \in 0..(Dim - 1) : PairTerm(ilist, x, law, j, 0, k) # 0
    /\ \E k \in 0..(Dim - 1) : grad[k] # 0

(* C6 *)
RECURSIVE SumEnergy(_, _, _, _)
SumEnergy(l, xx, lw, j) ==
    IF j + 1 >= Size(l) THEN 0
    ELSE energy(lw, SqDist(xx, l[j], l[j + 1])) + SumEnergy(l, xx, lw, j + 2)

RECURSIVE SumEnergyG(_, _, _, _)
SumEnergyG(l, xx, lw, j) ==
    IF j + 1 >= Size(l) THEN 0
    ELSE energy_gradient(lw, SqDist(xx, l[j], l[j + 1])).e + SumEnergyG(l, xx, lw, j + 2)

\* C6: on valid input get_energy returns the sum over the list's pairs of
\* the law's energy at the pair's squared Cartesian separation, and
\* get_energy_gradient returns the sum of the energies its law call gives;
\* both are 0 for the empty list.
C6_Decomposable ==
    /\ (pc = "idle" /\ retE # <<>> /\ ValidInput) =>
         retE = <<SumEnergy(ilist, x, law, 0)>>
    /\ (pc = "idle" /\ retEG # <<>> /\ ValidInput) =>
         retEG = <<SumEnergyG(ilist, x, law, 0)>>

C6_Witness ==
    /\ BothReturned
    /\ ValidInput
    /\ Size(ilist) = 4
    /\ \A j \in PairStarts(ilist) : SqDist(x, ilist[j], ilist[j + 1]) > 0
    /\ law = "skew"

(* C7 *)
\* C7 as stated, for lists of even length and buffers of one length: built
\* with assertions, get_energy_gradient on a list holding an index outside
\* 0..N-1 never gets to the pair loop and touches no position outside the
\* buffers.
C7_Claim ==
    (/\ ~ndebug
     /\ Size(ilist) % 2 = 0
     /\ Size(grad) = Size(x)
     /\ \E j \in DOMAIN ilist : ~InRange(ilist[j], x)) =>
        /\ pc \notin {"geg_loop", "geg_ub"}
        /\ (pc \in {"geg_zero", "geg_check", "aborted"}) => acc \subseteq DOMAIN x

(* C8 *)
\* C8: no step changes the interaction list, the law or the coordinate
\* buffer, and no step of get_energy changes the gradient buffer.
C8_Frame ==
    [][/\ ilist' = ilist
       /\ law' = law
       /\ x' = x
       /\ (pc = "ge_loop" \/ pc' = "ge_loop") => grad' = grad]_vars

C8_Witness ==
    /\ BothReturned
    /\ ValidInput
    /\ Size(ilist) > 0
    /\ grad # ZeroBuffer(x)
    /\ gradIn # <<grad>>

(* C9 *)
RECURSIVE AxisSum(_, _, _)
AxisSum(g, k, n) == IF n = 0 THEN 0 ELSE g[Dim * (n - 1) + k] + AxisSum(g, k, n - 1)

\* The gradient entries of each axis sum to zero over the particles.
Balanced(g) == \A k \in 0..(Dim - 1) : AxisSum(g, k, Size(g) \div Dim) = 0

\* C9: after the zeroing step, after each pair and at return of
\* get_energy_gradient the gradient entries of each axis sum to zero over
\* the particles, and a pair (a, a) changes no gradient entry.
C9_Balanced ==
    /\ [](((pc \in {"geg_check", "geg_loop"}) \/ (pc = "idle" /\ retEG # <<>>))
            => Balanced(grad))
    /\ [][(/\ pc = "geg_loop"
           /\ pc' = "geg_loop"
           /\ i' = i + 2
           /\ i + 1 < Size(ilist)
           /\ ilist[i] = ilist[i + 1]) => grad' = grad]_vars

C9_Witness ==
    /\ pc = "geg_loop"
    /\ i = 2
    /\ Size(ilist) = 4
    /\ grad # ZeroBuffer(x)

(* C10 *)
\* The pair loop is over: its condition fails, or its last step left the
\* buffers.
LoopOver ==
    \/ pc \in {"ge_loop", "geg_loop"} /\ ~LoopCond(i, Size(ilist))
    \/ pc \in {"ge_ub", "geg_ub"}

\* C10: in both functions the pair loop reads list positions i and i+1 for
\* i = 0, 2, 4, ...; once it is over, all its reads were below the list's
\* length exactly when the length is even, and for an odd length, which no
\* assertion rejects, the position equal to the length was read.
C10_ReadsPastEnd ==
    /\ (pc \in {"ge_loop", "geg_loop"}) => rd = 0..(i - 1)
    /\ (pc \in {"ge_ub", "geg_ub"}) => rd = 0..(i + 1)
    /\ LoopOver => ((rd \subseteq DOMAIN ilist) <=> (Size(ilist) % 2 = 0))
    /\ (LoopOver /\ Size(ilist) % 2 = 1) => Size(ilist) \in rd
    /\ pc # "aborted"

C10_Witness ==
    /\ ~ndebug
    /\ pc = "geg_loop"
    /\ ~LoopCond(i, Size(ilist))
    /\ Size(ilist) = 3
    /\ Size(ilist) \in rd

====
